---- MODULE Spec2Model ----
(***************************************************************************)
(* tiny-dfr live configuration subsystem (src/src/config.rs).              *)
(*                                                                         *)
(* Four specifications share this module:                                  *)
(*   SpecLoad  load_config as a function of (width, system default source, *)
(*             user source), applied to inputs drawn from bounded sets;    *)
(*   SpecLayers  load_config on sources that resolve, over more widths;    *)
(*   SpecColors  from_theme and get_button_colors on bounded inputs;       *)
(*   Spec      ConfigManager (new / load_config / update_config) running   *)
(*             against the kernel's inotify instance and the user file,    *)
(*             which other processes write, replace, delete and create.    *)
(*                                                                         *)
(* Option<T> is a sequence of length <= 1: <<>> is None, <<v>> is Some(v). *)
(* An RGB triple [f64; 3] is a triple of hundredths.                       *)
(***************************************************************************)
EXTENDS Integers, Sequences, FiniteSets, TLC

VARIABLES
    os,        \* file system + kernel inotify instance (environment)
    sys,       \* the system default source /usr/share/tiny-dfr/config.toml
    watch_desc,\* ConfigManager.watch_desc : Option<WatchDescriptor>
    cfg,       \* the caller's Config               (Option: <<>> before the first load)
    layers,    \* the caller's [FunctionLayer; 2]   (Option, as cfg)
    phase,     \* "boot" | "constructed" | "running" | "aborted"
    last,      \* what the last step did (observation record)
    lin,       \* SpecLoad: the inputs of load_config
    lout       \* SpecLoad: its outcome, <<>> until applied

vars == <<os, sys, watch_desc, cfg, layers, phase, last, lin, lout>>

None == <<>>
Some(v) == <<v>>

\* Option::or (std): self if it is Some, otherwise the argument.
OptOr(a, b) == IF a # None THEN a ELSE b

----------------------------------------------------------------------------
(* Colors                                                                  *)

\* impl Default for ColorConfig
DefaultColorConfig ==
    [button_background_inactive |-> <<20, 20, 20>>,
     button_background_active   |-> <<40, 40, 40>>,
     icon_color                 |-> <<100, 100, 100>>,
     icon_color_active          |-> <<100, 100, 100>>,
     text_color                 |-> <<100, 100, 100>>,
     button_overrides           |-> None]

LightPalette ==
    [button_background_inactive |-> <<90, 90, 90>>,
     button_background_active   |-> <<70, 70, 70>>,
     icon_color                 |-> <<10, 10, 10>>,
     icon_color_active          |-> <<0, 0, 0>>,
     text_color                 |-> <<10, 10, 10>>,
     button_overrides           |-> None]

ColorfulPalette ==
    [button_background_inactive |-> <<15, 15, 15>>,
     button_background_active   |-> <<35, 35, 35>>,
     icon_color                 |-> <<100, 80, 60>>,
     icon_color_active          |-> <<100, 100, 80>>,
     text_color                 |-> <<100, 100, 100>>,
     button_overrides           |-> None]

MinimalPalette ==
    [button_background_inactive |-> <<10, 10, 10>>,
     button_background_active   |-> <<20, 20, 20>>,
     icon_color                 |-> <<90, 90, 90>>,
     icon_color_active          |-> <<100, 100, 100>>,
     text_color                 |-> <<90, 90, 90>>,
     button_overrides           |-> None]

\* char::to_lowercase on the letters the theme names are written with; a theme
\* name is a sequence of one-character strings.
LowerChar(c) ==
    CASE c = "L" -> "l" [] c = "I" -> "i" [] c = "G" -> "g" [] c = "H" -> "h"
      [] c = "T" -> "t" [] c = "C" -> "c" [] c = "O" -> "o" [] c = "R" -> "r"
      [] c = "F" -> "f" [] c = "U" -> "u" [] c = "M" -> "m" [] c = "N" -> "n"
      [] c = "A" -> "a" [] c = "D" -> "d" [] c = "K" -> "k"
      [] OTHER -> c

\* str::to_lowercase
to_lowercase(s) == [i \in 1..Len(s) |-> LowerChar(s[i])]

\* from_theme matching the theme as written, without line 52's to_lowercase
from_theme_case_sensitive(theme) ==
    CASE theme = <<"l", "i", "g", "h", "t">> -> LightPalette
      [] theme = <<"c", "o", "l", "o", "r", "f", "u", "l">> -> ColorfulPalette
      [] theme = <<"m", "i", "n", "i", "m", "a", "l">> -> MinimalPalette
      [] OTHER -> DefaultColorConfig

\* ColorConfig::from_theme
from_theme(theme) ==
    LET t == to_lowercase(theme) IN
    CASE t = <<"l", "i", "g", "h", "t">> -> LightPalette
      [] t = <<"c", "o", "l", "o", "r", "f", "u", "l">> -> ColorfulPalette
      [] t = <<"m", "i", "n", "i", "m", "a", "l">> -> MinimalPalette
      [] OTHER -> DefaultColorConfig

\* get_button_colors with line 100 reading the override's icon_color for
\* icon_color_active
get_button_colors_icon_slip(self, button_text) ==
    LET has == /\ self.button_overrides # None
               /\ button_text \in DOMAIN self.button_overrides[1]
        ov  == self.button_overrides[1][button_text]
        pick(f, g) == IF has /\ ov[g] # None THEN ov[g][1] ELSE self[f]
    IN <<pick("button_background_inactive", "button_background_inactive"),
         pick("button_background_active", "button_background_active"),
         pick("icon_color", "icon_color"),
         pick("icon_color_active", "icon_color"),
         pick("text_color", "text_color")>>

\* ColorConfig::get_button_colors; overrides is Option<map>, a map is a function
\* from button texts to ButtonColorOverride records.
get_button_colors(self, button_text) ==
    LET has == /\ self.button_overrides # None
               /\ button_text \in DOMAIN self.button_overrides[1]
        ov  == self.button_overrides[1][button_text]
        pick(f) == IF has /\ ov[f] # None THEN ov[f][1] ELSE self[f]
    IN <<pick("button_background_inactive"), pick("button_background_active"),
         pick("icon_color"), pick("icon_color_active"), pick("text_color")>>

\* #[derive(Default)] for ColorConfigProxy: every field None
DefaultColorConfigProxy ==
    [theme |-> None,
     button_background_inactive |-> None,
     button_background_active   |-> None,
     icon_color                 |-> None,
     icon_color_active          |-> None,
     text_color                 |-> None,
     button_overrides           |-> None]

\* ColorConfigProxy::to_color_config
to_color_config(self) ==
    LET colors == IF self.theme # None THEN from_theme(self.theme[1])
                  ELSE DefaultColorConfig
        set(f) == IF self[f] # None THEN self[f][1] ELSE colors[f]
    IN [button_background_inactive |-> set("button_background_inactive"),
        button_background_active   |-> set("button_background_active"),
        icon_color                 |-> set("icon_color"),
        icon_color_active          |-> set("icon_color_active"),
        text_color                 |-> set("text_color"),
        button_overrides           |-> IF self.button_overrides # None
                                       THEN self.button_overrides
                                       ELSE colors.button_overrides]

----------------------------------------------------------------------------
(* Button descriptors and the raw configuration record                     *)

\* struct ButtonConfig, for a key that shows a text
Button(text, action) ==
    [icon |-> None, text |-> Some(text), theme |-> None, time |-> None,
     battery |-> None, locale |-> None, action |-> action, stretch |-> None]

\* the synthetic escape key load_config inserts
EscButton ==
    [icon |-> None, text |-> Some("esc"), theme |-> None, time |-> None,
     battery |-> None, locale |-> None, action |-> "Esc", stretch |-> None]

\* the display width from which the escape key is injected
EscWidth == 2170

\* the fields of struct ConfigProxy
ProxyFields ==
    {"media_layer_default", "show_button_outlines", "enable_pixel_shift",
     "font_template", "adaptive_brightness", "active_brightness",
     "primary_layer_keys", "media_layer_keys", "colors"}

\* the fields load_config unwraps (colors has unwrap_or_default instead)
RequiredFields == ProxyFields \ {"colors"}

\* external collaborator fontconfig: the font families match_pattern resolves
InstalledFonts == {"sans", "serif"}

\* load_font: Some(face) when the family is matched, None where it panics
load_font(name) ==
    IF name \in InstalledFonts THEN Some([family |-> name]) ELSE None

\* FunctionLayer::with_config: the layer is the ordered button sequence it was
\* built from
with_config(keys) == [buttons |-> keys]

\* merge with line 222 reading the user's primary keys for the media keys
merge_swapped_keys(base, user) ==
    [media_layer_default  |-> OptOr(user.media_layer_default, base.media_layer_default),
     show_button_outlines |-> OptOr(user.show_button_outlines, base.show_button_outlines),
     enable_pixel_shift   |-> OptOr(user.enable_pixel_shift, base.enable_pixel_shift),
     font_template        |-> OptOr(user.font_template, base.font_template),
     adaptive_brightness  |-> OptOr(user.adaptive_brightness, base.adaptive_brightness),
     media_layer_keys     |-> OptOr(user.primary_layer_keys, base.media_layer_keys),
     primary_layer_keys   |-> OptOr(user.primary_layer_keys, base.primary_layer_keys),
     active_brightness    |-> OptOr(user.active_brightness, base.active_brightness),
     colors               |-> OptOr(user.colors, base.colors)]

\* merge with line 225 laying the user's colors section over the base's field
\* by field
merge_colors_fieldwise(base, user) ==
    [media_layer_default  |-> OptOr(user.media_layer_default, base.media_layer_default),
     show_button_outlines |-> OptOr(user.show_button_outlines, base.show_button_outlines),
     enable_pixel_shift   |-> OptOr(user.enable_pixel_shift, base.enable_pixel_shift),
     font_template        |-> OptOr(user.font_template, base.font_template),
     adaptive_brightness  |-> OptOr(user.adaptive_brightness, base.adaptive_brightness),
     media_layer_keys     |-> OptOr(user.media_layer_keys, base.media_layer_keys),
     primary_layer_keys   |-> OptOr(user.primary_layer_keys, base.primary_layer_keys),
     active_brightness    |-> OptOr(user.active_brightness, base.active_brightness),
     colors               |->
        IF user.colors # None /\ base.colors # None
        THEN Some([f \in DOMAIN DefaultColorConfigProxy |->
                      OptOr(user.colors[1][f], base.colors[1][f])])
        ELSE OptOr(user.colors, base.colors)]

\* load_config lines 216-226: the user record laid over the base record
merge(base, user) ==
    [media_layer_default  |-> OptOr(user.media_layer_default, base.media_layer_default),
     show_button_outlines |-> OptOr(user.show_button_outlines, base.show_button_outlines),
     enable_pixel_shift   |-> OptOr(user.enable_pixel_shift, base.enable_pixel_shift),
     font_template        |-> OptOr(user.font_template, base.font_template),
     adaptive_brightness  |-> OptOr(user.adaptive_brightness, base.adaptive_brightness),
     media_layer_keys     |-> OptOr(user.media_layer_keys, base.media_layer_keys),
     primary_layer_keys   |-> OptOr(user.primary_layer_keys, base.primary_layer_keys),
     active_brightness    |-> OptOr(user.active_brightness, base.active_brightness),
     colors               |-> OptOr(user.colors, base.colors)]

\* load_config lines 213-226: the record the rest of load_config works on. A
\* source is [kind, rec]; the user source counts only when it was read and parsed.
merged_base(sysSrc, userSrc) ==
    IF userSrc.kind = "ok" THEN merge(sysSrc.rec, userSrc.rec) ELSE sysSrc.rec

\* with_esc with line 229 as width > 2170
with_esc_exclusive(width, keys) == IF width > EscWidth THEN <<EscButton>> \o keys ELSE keys

\* load_config lines 227-247: the escape key goes first from EscWidth on
with_esc(width, keys) == IF width >= EscWidth THEN <<EscButton>> \o keys ELSE keys

\* build_config with line 258 as unwrap_or(100) in place of unwrap
build_config_default_brightness(width, base) ==
    IF \E f \in RequiredFields \ {"active_brightness"} : base[f] = None THEN None
    ELSE IF load_font(base.font_template[1]) = None THEN None
    ELSE
      LET media_layer == with_config(with_esc(width, base.media_layer_keys[1]))
          fkey_layer  == with_config(with_esc(width, base.primary_layer_keys[1]))
      IN Some([cfg |->
                 [show_button_outlines |-> base.show_button_outlines[1],
                  enable_pixel_shift   |-> base.enable_pixel_shift[1],
                  adaptive_brightness  |-> base.adaptive_brightness[1],
                  font_face            |-> load_font(base.font_template[1])[1],
                  active_brightness    |-> IF base.active_brightness # None
                                           THEN base.active_brightness[1] ELSE 100,
                  colors |-> to_color_config(
                                IF base.colors # None THEN base.colors[1]
                                ELSE DefaultColorConfigProxy)],
               layers |->
                 IF base.media_layer_default[1]
                 THEN <<media_layer, fkey_layer>>
                 ELSE <<fkey_layer, media_layer>>])

\* build_config with the branches of lines 248-252 exchanged
build_config_layers_swapped(width, base) ==
    IF \E f \in RequiredFields : base[f] = None THEN None
    ELSE IF load_font(base.font_template[1]) = None THEN None
    ELSE
      LET media_layer == with_config(with_esc(width, base.media_layer_keys[1]))
          fkey_layer  == with_config(with_esc(width, base.primary_layer_keys[1]))
      IN Some([cfg |->
                 [show_button_outlines |-> base.show_button_outlines[1],
                  enable_pixel_shift   |-> base.enable_pixel_shift[1],
                  adaptive_brightness  |-> base.adaptive_brightness[1],
                  font_face            |-> load_font(base.font_template[1])[1],
                  active_brightness    |-> base.active_brightness[1],
                  colors |-> to_color_config(
                                IF base.colors # None THEN base.colors[1]
                                ELSE DefaultColorConfigProxy)],
               layers |->
                 IF base.media_layer_default[1]
                 THEN <<fkey_layer, media_layer>>
                 ELSE <<media_layer, fkey_layer>>])

\* load_config lines 227-261 on the merged record: None where an unwrap or
\* load_font panics, Some([cfg, layers]) where it returns
build_config(width, base) ==
    IF \E f \in RequiredFields : base[f] = None THEN None
    ELSE IF load_font(base.font_template[1]) = None THEN None
    ELSE
      LET media_layer == with_config(with_esc(width, base.media_layer_keys[1]))
          fkey_layer  == with_config(with_esc(width, base.primary_layer_keys[1]))
      IN Some([cfg |->
                 [show_button_outlines |-> base.show_button_outlines[1],
                  enable_pixel_shift   |-> base.enable_pixel_shift[1],
                  adaptive_brightness  |-> base.adaptive_brightness[1],
                  font_face            |-> load_font(base.font_template[1])[1],
                  active_brightness    |-> base.active_brightness[1],
                  colors |-> to_color_config(
                                IF base.colors # None THEN base.colors[1]
                                ELSE DefaultColorConfigProxy)],
               layers |->
                 IF base.media_layer_default[1]
                 THEN <<media_layer, fkey_layer>>
                 ELSE <<fkey_layer, media_layer>>])

\* load_config unwrapping the user source unless the file is merely missing
load_config_user_unwrap(width, sysSrc, userSrc) ==
    IF sysSrc.kind # "ok" THEN None
    ELSE IF userSrc.kind \in {"unreadable", "malformed"} THEN None
    ELSE build_config(width, merged_base(sysSrc, userSrc))

\* fn load_config(width): None where it panics, Some([cfg, layers]) otherwise
load_config(width, sysSrc, userSrc) ==
    IF sysSrc.kind # "ok" THEN None
    ELSE build_config(width, merged_base(sysSrc, userSrc))

----------------------------------------------------------------------------
(* Bounded inputs of load_config                                           *)

\* how many different values each field takes in the inputs
NumVariants == 2

PrimaryPool == <<Button("F1", "F1"), Button("F2", "F2")>>
MediaPool   == <<Button("Vol", "VolumeUp"), Button("Play", "PlayPause")>>
FontPool    == <<"sans", "nofont", "serif">>
ColorPool ==
    <<[DefaultColorConfigProxy EXCEPT !.theme = Some(<<"L", "i", "g", "h", "t">>)],
      [DefaultColorConfigProxy EXCEPT
          !.text_color = Some(<<50, 50, 50>>),
          !.button_overrides = Some([t \in {"esc"} |->
              [button_background_inactive |-> None,
               button_background_active   |-> None,
               icon_color                 |-> Some(<<100, 0, 0>>),
               icon_color_active          |-> None,
               text_color                 |-> None]])],
      [DefaultColorConfigProxy EXCEPT
          !.theme = Some(<<"c", "o", "l", "o", "r", "f", "u", "l">>),
          !.button_background_active = Some(<<60, 60, 60>>)]>>

\* the v-th value of field f
FieldValue(f, v) ==
    CASE f = "media_layer_default"  -> v % 2 = 1
      [] f = "show_button_outlines" -> v % 2 = 0
      [] f = "enable_pixel_shift"   -> v % 2 = 1
      [] f = "adaptive_brightness"  -> v % 2 = 0
      [] f = "font_template"        -> FontPool[((v - 1) % 3) + 1]
      [] f = "active_brightness"    -> 50 + 30 * (v - 1)
      [] f = "primary_layer_keys"   -> SubSeq(PrimaryPool, 1, v % 3)
      [] f = "media_layer_keys"     -> SubSeq(MediaPool, 1, (v + 1) % 3)
      [] f = "colors"               -> ColorPool[((v - 1) % 3) + 1]

\* a ConfigProxy holding the v-th value of the fields in present, None elsewhere
ProxyOf(present, v) ==
    [f \in ProxyFields |-> IF f \in present THEN Some(FieldValue(f, v)) ELSE None]

EmptyProxy == ProxyOf({}, 1)

\* system default sources: complete, or lacking one field, or not there, or not TOML
SysSources ==
    {[kind |-> "ok", rec |-> ProxyOf(ProxyFields \ d, v)] :
        d \in {{}} \cup {{f} : f \in ProxyFields}, v \in 1..NumVariants}
    \cup {[kind |-> k, rec |-> EmptyProxy] : k \in {"missing", "unparsable"}}

\* user sources: any set of fields present, or no file, or unreadable, or not TOML
UserSources ==
    {[kind |-> "ok", rec |-> ProxyOf(p, v)] : p \in SUBSET ProxyFields, v \in 1..NumVariants}
    \cup {[kind |-> k, rec |-> EmptyProxy] : k \in {"missing", "unreadable", "malformed"}}

\* display widths (u16) around the escape-key threshold
Widths == {EscWidth - 1, EscWidth}

----------------------------------------------------------------------------
(* SpecLoad: load_config applied to the bounded inputs                     *)

\* the observation record of a step: which operation ran and, for update_config,
\* what it returned and did
LastOf(op) ==
    [op |-> op,          \* new, load, update; replace, or env for any other outside step
     after |-> "none",   \* update: "replace" right after a replace, else "other"
     width |-> 0,        \* the width load_config was called with, 0 if it was not
     ret |-> FALSE,      \* update: the value returned
     read |-> "none",    \* update: unarmed | eagain | batch | err (read_events)
     masks |-> {},       \* update: the masks of the events read
     matched |-> FALSE,  \* update: some event carried the armed descriptor
     reloads |-> 0,      \* the load_config calls made
     arms |-> 0,         \* the arm_inotify calls made
     armres |-> "none",  \* what the last inotify_add_watch answered
     fatal |-> "none",   \* the unwrap that panicked: init | read | load | arm
     mid |-> "none"]     \* update: what another process did before the re-arm

Idle == LastOf("none")

InitLoad ==
    /\ lin \in [width : Widths, sys : SysSources, user : UserSources]
    /\ lout = None
    /\ os = None /\ sys = None /\ watch_desc = None /\ cfg = None
    /\ layers = None /\ phase = "load" /\ last = Idle

ApplyLoad ==
    /\ phase = "load"
    /\ lout = None
    /\ lout' = Some([merged |-> IF lin.sys.kind = "ok"
                                THEN Some(merged_base(lin.sys, lin.user)) ELSE None,
                     result |-> load_config(lin.width, lin.sys, lin.user)])
    /\ UNCHANGED <<os, sys, watch_desc, cfg, layers, phase, last, lin>>

NextLoad == ApplyLoad

SpecLoad == InitLoad /\ [][NextLoad]_vars

----------------------------------------------------------------------------
(* SpecLayers: load_config on sources that resolve, over the u16 widths     *)
(* below, at and above the escape-key threshold                            *)

\* display widths (u16): the least, the threshold and its neighbours, the greatest
LayerWidths == {0, EscWidth - 1, EscWidth, EscWidth + 1, 65535}

\* the fields the layer pair and the colors are resolved from, and the font
LayerFields ==
    {"media_layer_default", "primary_layer_keys", "media_layer_keys", "colors",
     "font_template"}

\* system defaults with every required field, with or without a colors section
LayerSysSources ==
    {[kind |-> "ok", rec |-> ProxyOf(ProxyFields \ d, v)] :
        d \in {{}, {"colors"}}, v \in 1..NumVariants}

\* user sources giving any of LayerFields, or no file, or unreadable, or not TOML
LayerUserSources ==
    {[kind |-> "ok", rec |-> ProxyOf(p, v)] : p \in SUBSET LayerFields, v \in 1..NumVariants}
    \cup {[kind |-> k, rec |-> EmptyProxy] : k \in {"missing", "unreadable", "malformed"}}

InitLayers ==
    /\ lin \in [width : LayerWidths, sys : LayerSysSources, user : LayerUserSources]
    /\ lout = None
    /\ os = None /\ sys = None /\ watch_desc = None /\ cfg = None
    /\ layers = None /\ phase = "load" /\ last = Idle

SpecLayers == InitLayers /\ [][NextLoad]_vars

----------------------------------------------------------------------------
(* SpecColors: from_theme and get_button_colors applied to bounded inputs  *)

\* how many letters of a theme name the inputs write in upper case (the names
\* wholly in upper case are inputs too)
MaxCaps == 2

\* the upper-case letter char::to_lowercase maps to c
UpperChar(c) ==
    CASE c = "l" -> "L" [] c = "i" -> "I" [] c = "g" -> "G" [] c = "h" -> "H"
      [] c = "t" -> "T" [] c = "c" -> "C" [] c = "o" -> "O" [] c = "r" -> "R"
      [] c = "f" -> "F" [] c = "u" -> "U" [] c = "m" -> "M" [] c = "n" -> "N"
      [] c = "a" -> "A" [] c = "d" -> "D" [] c = "k" -> "K"
      [] OTHER -> c

\* theme strings in lower case: the three names, "dark", the empty string, and
\* near misses (a prefix, an extension, a leading blank, a digit)
ThemeWords ==
    {<<"l", "i", "g", "h", "t">>,
     <<"c", "o", "l", "o", "r", "f", "u", "l">>,
     <<"m", "i", "n", "i", "m", "a", "l">>,
     <<"d", "a", "r", "k">>,
     <<>>,
     <<"l", "i", "g", "h">>,
     <<"l", "i", "g", "h", "t", "s">>,
     <<" ", "l", "i", "g", "h", "t">>,
     <<"m", "i", "n", "i", "m", "a", "1">>}

\* the word w with the letters at the positions ups in upper case
Cased(w, ups) == [i \in 1..Len(w) |-> IF i \in ups THEN UpperChar(w[i]) ELSE w[i]]

ThemeStrings ==
    UNION {{Cased(w, ups) :
               ups \in {u \in SUBSET (1..Len(w)) :
                           Cardinality(u) <= MaxCaps \/ u = 1..Len(w)}} :
           w \in ThemeWords}

\* the button texts the override maps have entries for, and the ones looked up
OverrideTexts == {"esc", "F1"}
ButtonTexts == OverrideTexts \cup {"F2"}

\* the value an override gives a field: one per field, none a palette's
OverrideValue(f) ==
    CASE f = "button_background_inactive" -> <<55, 0, 0>>
      [] f = "button_background_active"   -> <<0, 55, 0>>
      [] f = "icon_color"                 -> <<0, 0, 55>>
      [] f = "icon_color_active"          -> <<55, 55, 0>>
      [] f = "text_color"                 -> <<0, 55, 55>>

\* the fields of struct ButtonColorOverride, in the order of the tuple
\* get_button_colors returns
ColorFields ==
    <<"button_background_inactive", "button_background_active", "icon_color",
      "icon_color_active", "text_color">>

\* struct ButtonColorOverride: any set of the five fields given
OverrideRecs ==
    {[f \in {ColorFields[i] : i \in 1..5} |->
         IF f \in given THEN Some(OverrideValue(f)) ELSE None] :
     given \in SUBSET {ColorFields[i] : i \in 1..5}}

\* HashMap<String, ButtonColorOverride>: entries for some of OverrideTexts
OverrideMaps == UNION {[d -> OverrideRecs] : d \in (SUBSET OverrideTexts) \ {{}}}

\* struct ColorConfig: a palette with no override map or with one
ColorConfigs ==
    {[p EXCEPT !.button_overrides = o] :
        p \in {DefaultColorConfig, LightPalette},
        o \in {None} \cup {Some(mp) : mp \in OverrideMaps}}

\* the input of one call: a theme string for from_theme, or a ColorConfig and
\* a button text for get_button_colors
ColorInputs ==
    [kind : {"theme"}, theme : ThemeStrings, self : {DefaultColorConfig},
     button_text : {"esc"}]
    \cup [kind : {"colors"}, theme : {<<>>}, self : ColorConfigs,
          button_text : ButtonTexts]

\* lout is the sequence of the results of the calls made on lin
InitColors ==
    /\ lin \in ColorInputs
    /\ lout = <<>>
    /\ os = None /\ sys = None /\ watch_desc = None /\ cfg = None
    /\ layers = None /\ phase = "colors" /\ last = Idle

\* ColorConfig::from_theme(theme)
FromTheme ==
    /\ phase = "colors" /\ lin.kind = "theme"
    /\ lout = <<>>
    /\ lout' = <<from_theme(lin.theme)>>
    /\ UNCHANGED <<os, sys, watch_desc, cfg, layers, phase, last, lin>>

\* self.get_button_colors(button_text), called once and once more: &self is a
\* shared borrow, the ColorConfig is not assigned
GetButtonColors ==
    /\ phase = "colors" /\ lin.kind = "colors"
    /\ Len(lout) < 2
    /\ lout' = Append(lout, get_button_colors(lin.self, lin.button_text))
    /\ UNCHANGED <<os, sys, watch_desc, cfg, layers, phase, last, lin>>

NextColors == FromTheme \/ GetButtonColors

SpecColors == InitColors /\ [][NextColors]_vars

----------------------------------------------------------------------------
(* The environment: the user file and the kernel's inotify instance        *)
(*                                                                         *)
(* os.file     Option<[ino, content]>: what USER_CFG_PATH names            *)
(* os.watches  the instance's registered watches, a set of [wd, ino]       *)
(* os.queue    the events the instance holds unread, each [wd, mask]       *)
(* os.ignored  Option<wd>: the fired watch whose IN_IGNORED the kernel has  *)
(*             yet to queue                                                *)
(* os.next_wd, os.next_ino   the next descriptor / inode number            *)
(*                                                                         *)
(* A watch is on the inode, with mask IN_MOVED_TO | IN_CLOSE | IN_ONESHOT: *)
(* the first close of the inode queues the close event and removes the     *)
(* watch, and the kernel then queues IN_IGNORED for it, at the latest       *)
(* before it queues an event of a later watch; the inode losing its last   *)
(* link removes the watch and queues IN_IGNORED alone.                     *)
(* IN_MOVED_TO is raised for directories only. Other processes open,       *)
(* change and close the file in one step, and a replaced or deleted inode  *)
(* has no other link.                                                      *)

\* how many watch descriptors and inodes a run may allocate
MaxWd == 4
MaxIno == 3

\* the user file contents of the watch model, by name: brightness 80 with the
\* primary layer first, an unknown font (load_font panics), text that is not TOML
FileContents == {"bright", "nofont", "garbage"}

NoUserFile == [kind |-> "missing", rec |-> EmptyProxy]

\* what read_to_string and the parse make of a content
UserSourceOf(content) ==
    CASE content = "bright" ->
            [kind |-> "ok", rec |-> ProxyOf({"active_brightness", "media_layer_default"}, 2)]
      [] content = "nofont" ->
            [kind |-> "ok", rec |-> ProxyOf({"font_template"}, 2)]
      [] content = "garbage" ->
            [kind |-> "malformed", rec |-> EmptyProxy]

\* the system default of the watch model, by name: complete, or lacking
\* active_brightness
WatchSysNames == {"complete", "partial"}

SysSourceOf(name) ==
    CASE name = "complete" -> [kind |-> "ok", rec |-> ProxyOf(ProxyFields, 1)]
      [] name = "partial"  ->
            [kind |-> "ok", rec |-> ProxyOf(ProxyFields \ {"active_brightness"}, 1)]

\* load_config on the sources of the watch model, by width, system default and
\* user file content ("absent": no user file)
WatchLoad ==
    [w \in Widths, s \in WatchSysNames, c \in FileContents \cup {"absent"} |->
        load_config(w, SysSourceOf(s),
                    IF c = "absent" THEN NoUserFile ELSE UserSourceOf(c))]

\* the IN_IGNORED the kernel has yet to queue, as a sequence of events
PendingIgnored(o) ==
    IF o.ignored = None THEN <<>>
    ELSE <<[wd |-> o.ignored[1], mask |-> "IN_IGNORED"]>>

\* a close of inode ino: a one-shot watch on it fires and is removed
Fire(o, ino, mask) ==
    IF \E w \in o.watches : w.ino = ino
    THEN LET w == CHOOSE w \in o.watches : w.ino = ino
         IN [o EXCEPT !.queue = @ \o PendingIgnored(o) \o <<[wd |-> w.wd, mask |-> mask]>>,
                      !.ignored = Some(w.wd),
                      !.watches = @ \ {w}]
    ELSE o

\* inode ino loses its last link: a watch on it is removed
Drop(o, ino) ==
    IF \E w \in o.watches : w.ino = ino
    THEN LET w == CHOOSE w \in o.watches : w.ino = ino
         IN [o EXCEPT !.queue = @ \o PendingIgnored(o)
                                    \o <<[wd |-> w.wd, mask |-> "IN_IGNORED"]>>,
                      !.ignored = None,
                      !.watches = @ \ {w}]
    ELSE o

\* what other processes do to the user file
EnvOps ==
    [kind : {"write", "replace", "create"}, content : FileContents]
    \cup [kind : {"read", "delete"}, content : {"none"}]

EnvEnabled(o, op) ==
    CASE op.kind \in {"write", "read", "delete"} -> o.file # None
      [] op.kind = "replace" -> o.file # None /\ o.next_ino <= MaxIno
      [] op.kind = "create"  -> o.file = None /\ o.next_ino <= MaxIno

EnvApply(o, op) ==
    CASE op.kind = "write" ->
            Fire([o EXCEPT !.file = Some([ino |-> o.file[1].ino, content |-> op.content])],
                 o.file[1].ino, "IN_CLOSE_WRITE")
      [] op.kind = "read" ->
            Fire(o, o.file[1].ino, "IN_CLOSE_NOWRITE")
      [] op.kind = "replace" ->
            Drop([o EXCEPT !.file = Some([ino |-> o.next_ino, content |-> op.content]),
                           !.next_ino = @ + 1],
                 o.file[1].ino)
      [] op.kind = "delete" ->
            Drop([o EXCEPT !.file = None], o.file[1].ino)
      [] op.kind = "create" ->
            [o EXCEPT !.file = Some([ino |-> o.next_ino, content |-> op.content]),
                      !.next_ino = @ + 1]

\* a sequence of steps of other processes; ok is FALSE when one is not possible
RECURSIVE EnvRun(_, _)
EnvRun(o, ops) ==
    IF ops = <<>> THEN [ok |-> TRUE, os |-> o]
    ELSE IF ~EnvEnabled(o, Head(ops)) THEN [ok |-> FALSE, os |-> o]
    ELSE EnvRun(EnvApply(o, Head(ops)), Tail(ops))

\* what other processes may do between a reload's read of the user file and the
\* re-arm. No watch is registered then (the armed one has fired), so their steps
\* leave no event, only a file: and every file several steps leave, one step leaves.
MidSeqs == {<<>>} \cup {<<op>> : op \in EnvOps}

\* read_to_string(USER_CFG_PATH): the content it yields ("absent" without the
\* file), and the close of the file it opened
ReadUserFile(o) ==
    IF o.file = None THEN [src |-> "absent", os |-> o]
    ELSE [src |-> o.file[1].content,
          os |-> Fire(o, o.file[1].ino, "IN_CLOSE_NOWRITE")]

\* inotify_add_watch(USER_CFG_PATH): ENOENT without the file; otherwise another
\* errno when err, the descriptor of a watch the inode already has, or a new one
add_watch(o, err) ==
    IF o.file = None THEN [res |-> "ENOENT", wd |-> 0, os |-> o]
    ELSE IF err THEN [res |-> "EOTHER", wd |-> 0, os |-> o]
    ELSE IF \E w \in o.watches : w.ino = o.file[1].ino
    THEN [res |-> "ok", wd |-> (CHOOSE w \in o.watches : w.ino = o.file[1].ino).wd,
          os |-> o]
    ELSE [res |-> "ok", wd |-> o.next_wd,
          os |-> [o EXCEPT !.watches = @ \cup {[wd |-> o.next_wd, ino |-> o.file[1].ino]},
                           !.next_wd = @ + 1]]

\* arm_inotify unwrapping every error, ENOENT too
arm_inotify_strict(o, err) ==
    LET r == add_watch(o, err) IN
    [watch_desc |-> IF r.res = "ok" THEN Some(r.wd) ELSE None,
     panic |-> r.res # "ok",
     res |-> r.res,
     os |-> r.os]

\* arm_inotify answering None to every error
arm_inotify_lenient(o, err) ==
    LET r == add_watch(o, err) IN
    [watch_desc |-> IF r.res = "ok" THEN Some(r.wd) ELSE None,
     panic |-> FALSE,
     res |-> r.res,
     os |-> r.os]

\* fn arm_inotify: Some(wd), None on ENOENT, a panic on any other error
arm_inotify(o, err) ==
    LET r == add_watch(o, err) IN
    [watch_desc |-> IF r.res = "ok" THEN Some(r.wd) ELSE None,
     panic |-> r.res = "EOTHER",
     res |-> r.res,
     os |-> r.os]

----------------------------------------------------------------------------
(* ConfigManager                                                           *)

\* handle_events re-arming before load_config instead of after it
RECURSIVE handle_events_arm_first(_, _, _, _, _)
handle_events_arm_first(st, evts, width, armErr, mid) ==
    IF evts = <<>> \/ st.fatal # "none" THEN st
    ELSE IF Some(Head(evts).wd) # st.watch_desc
    THEN handle_events_arm_first(st, Tail(evts), width, armErr, mid)
    ELSE
      LET a     == arm_inotify(st.os, armErr)
          rd    == ReadUserFile(a.os)
          parts == WatchLoad[width, sys, rd.src]
          env   == EnvRun(rd.os, mid)
      IN IF a.panic \/ parts = None
         THEN [st EXCEPT !.os = rd.os, !.fatal = IF a.panic THEN "arm" ELSE "load",
                         !.matched = TRUE, !.arms = @ + 1, !.armres = a.res]
         ELSE handle_events_arm_first(
                  [st EXCEPT !.os = env.os,
                             !.cfg = Some(parts[1].cfg),
                             !.layers = Some(parts[1].layers),
                             !.ret = TRUE,
                             !.watch_desc = a.watch_desc,
                             !.matched = TRUE,
                             !.reloads = @ + 1,
                             !.arms = @ + 1,
                             !.armres = a.res,
                             !.midok = @ /\ env.ok,
                             !.mid = IF mid = <<>> THEN @ ELSE mid[1].kind],
                  Tail(evts), width, armErr, <<>>)

\* handle_events without line 316: the fired descriptor is kept
RECURSIVE handle_events_noarm(_, _, _, _, _)
handle_events_noarm(st, evts, width, armErr, mid) ==
    IF evts = <<>> \/ st.fatal # "none" THEN st
    ELSE IF Some(Head(evts).wd) # st.watch_desc
    THEN handle_events_noarm(st, Tail(evts), width, armErr, mid)
    ELSE
      LET rd    == ReadUserFile(st.os)
          parts == WatchLoad[width, sys, rd.src]
          env   == EnvRun(rd.os, mid)
      IN IF parts = None
         THEN [st EXCEPT !.os = rd.os, !.fatal = "load", !.matched = TRUE,
                         !.reloads = @ + 1]
         ELSE handle_events_noarm(
                  [st EXCEPT !.os = env.os,
                             !.cfg = Some(parts[1].cfg),
                             !.layers = Some(parts[1].layers),
                             !.ret = TRUE,
                             !.matched = TRUE,
                             !.reloads = @ + 1,
                             !.midok = @ /\ env.ok,
                             !.mid = IF mid = <<>> THEN @ ELSE mid[1].kind],
                  Tail(evts), width, armErr, <<>>)

\* handle_events without line 314: the layer pair is not assigned
RECURSIVE handle_events_cfg_only(_, _, _, _, _)
handle_events_cfg_only(st, evts, width, armErr, mid) ==
    IF evts = <<>> \/ st.fatal # "none" THEN st
    ELSE IF Some(Head(evts).wd) # st.watch_desc
    THEN handle_events_cfg_only(st, Tail(evts), width, armErr, mid)
    ELSE
      LET rd    == ReadUserFile(st.os)
          parts == WatchLoad[width, sys, rd.src]
          env   == EnvRun(rd.os, mid)
          a     == arm_inotify(env.os, armErr)
      IN IF parts = None
         THEN [st EXCEPT !.os = rd.os, !.fatal = "load", !.matched = TRUE,
                         !.reloads = @ + 1]
         ELSE handle_events_cfg_only(
                  [st EXCEPT !.os = a.os,
                             !.cfg = Some(parts[1].cfg),
                             !.ret = TRUE,
                             !.watch_desc = IF a.panic THEN @ ELSE a.watch_desc,
                             !.fatal = IF a.panic THEN "arm" ELSE "none",
                             !.matched = TRUE,
                             !.reloads = @ + 1,
                             !.arms = @ + 1,
                             !.armres = a.res,
                             !.midok = @ /\ env.ok,
                             !.mid = IF mid = <<>> THEN @ ELSE mid[1].kind],
                  Tail(evts), width, armErr, <<>>)

\* handle_events without the comparison of lines 309-311: every event reloads
RECURSIVE handle_events_any_event(_, _, _, _, _)
handle_events_any_event(st, evts, width, armErr, mid) ==
    IF evts = <<>> \/ st.fatal # "none" THEN st
    ELSE
      LET rd    == ReadUserFile(st.os)
          parts == WatchLoad[width, sys, rd.src]
          env   == EnvRun(rd.os, mid)
          a     == arm_inotify(env.os, armErr)
          hit   == Some(Head(evts).wd) = st.watch_desc
      IN IF parts = None
         THEN [st EXCEPT !.os = rd.os, !.fatal = "load", !.matched = @ \/ hit,
                         !.reloads = @ + 1]
         ELSE handle_events_any_event(
                  [st EXCEPT !.os = a.os,
                             !.cfg = Some(parts[1].cfg),
                             !.layers = Some(parts[1].layers),
                             !.ret = TRUE,
                             !.watch_desc = IF a.panic THEN @ ELSE a.watch_desc,
                             !.fatal = IF a.panic THEN "arm" ELSE "none",
                             !.matched = @ \/ hit,
                             !.reloads = @ + 1,
                             !.arms = @ + 1,
                             !.armres = a.res,
                             !.midok = @ /\ env.ok,
                             !.mid = IF mid = <<>> THEN @ ELSE mid[1].kind],
                  Tail(evts), width, armErr, <<>>)

\* handle_events reloading and re-arming on a change only: an event of the armed
\* descriptor that reports a close without a write is passed over
RECURSIVE handle_events_write_only(_, _, _, _, _)
handle_events_write_only(st, evts, width, armErr, mid) ==
    IF evts = <<>> \/ st.fatal # "none" THEN st
    ELSE IF Some(Head(evts).wd) # st.watch_desc
    THEN handle_events_write_only(st, Tail(evts), width, armErr, mid)
    ELSE IF Head(evts).mask = "IN_CLOSE_NOWRITE"
    THEN handle_events_write_only([st EXCEPT !.matched = TRUE], Tail(evts),
                                  width, armErr, mid)
    ELSE
      LET rd    == ReadUserFile(st.os)
          parts == WatchLoad[width, sys, rd.src]
      IN IF parts = None
         THEN [st EXCEPT !.os = rd.os, !.fatal = "load", !.matched = TRUE,
                         !.reloads = @ + 1]
         ELSE
           LET env == EnvRun(rd.os, mid)
               a   == arm_inotify(env.os, armErr)
           IN handle_events_write_only(
                  [st EXCEPT !.os = a.os,
                             !.cfg = Some(parts[1].cfg),
                             !.layers = Some(parts[1].layers),
                             !.ret = TRUE,
                             !.watch_desc = IF a.panic THEN @ ELSE a.watch_desc,
                             !.fatal = IF a.panic THEN "arm" ELSE "none",
                             !.matched = TRUE,
                             !.reloads = @ + 1,
                             !.arms = @ + 1,
                             !.armres = a.res,
                             !.midok = @ /\ env.ok,
                             !.mid = IF mid = <<>> THEN @ ELSE mid[1].kind],
                  Tail(evts), width, armErr, <<>>)

\* handle_events with ret telling whether the event looked at last matched:
\* line 310 sets it back to false
RECURSIVE handle_events_ret_last(_, _, _, _, _)
handle_events_ret_last(st, evts, width, armErr, mid) ==
    IF evts = <<>> \/ st.fatal # "none" THEN st
    ELSE IF Some(Head(evts).wd) # st.watch_desc
    THEN handle_events_ret_last([st EXCEPT !.ret = FALSE], Tail(evts),
                                width, armErr, mid)
    ELSE
      LET rd    == ReadUserFile(st.os)
          parts == WatchLoad[width, sys, rd.src]
      IN IF parts = None
         THEN [st EXCEPT !.os = rd.os, !.fatal = "load", !.matched = TRUE,
                         !.reloads = @ + 1]
         ELSE
           LET env == EnvRun(rd.os, mid)
               a   == arm_inotify(env.os, armErr)
           IN handle_events_ret_last(
                  [st EXCEPT !.os = a.os,
                             !.cfg = Some(parts[1].cfg),
                             !.layers = Some(parts[1].layers),
                             !.ret = TRUE,
                             !.watch_desc = IF a.panic THEN @ ELSE a.watch_desc,
                             !.fatal = IF a.panic THEN "arm" ELSE "none",
                             !.matched = TRUE,
                             !.reloads = @ + 1,
                             !.arms = @ + 1,
                             !.armres = a.res,
                             !.midok = @ /\ env.ok,
                             !.mid = IF mid = <<>> THEN @ ELSE mid[1].kind],
                  Tail(evts), width, armErr, <<>>)

\* handle_events comparing every event of the batch with the descriptor that
\* was armed when the call began, not with self.watch_desc as it is
RECURSIVE handle_events_fixed_wd(_, _, _, _, _)
handle_events_fixed_wd(st, evts, width, armErr, mid) ==
    IF evts = <<>> \/ st.fatal # "none" THEN st
    ELSE IF Some(Head(evts).wd) # watch_desc
    THEN handle_events_fixed_wd(st, Tail(evts), width, armErr, mid)
    ELSE
      LET rd    == ReadUserFile(st.os)
          parts == WatchLoad[width, sys, rd.src]
      IN IF parts = None
         THEN [st EXCEPT !.os = rd.os, !.fatal = "load", !.matched = TRUE,
                         !.reloads = @ + 1]
         ELSE
           LET env == EnvRun(rd.os, mid)
               a   == arm_inotify(env.os, armErr)
           IN handle_events_fixed_wd(
                  [st EXCEPT !.os = a.os,
                             !.cfg = Some(parts[1].cfg),
                             !.layers = Some(parts[1].layers),
                             !.ret = TRUE,
                             !.watch_desc = IF a.panic THEN @ ELSE a.watch_desc,
                             !.fatal = IF a.panic THEN "arm" ELSE "none",
                             !.matched = TRUE,
                             !.reloads = @ + 1,
                             !.arms = @ + 1,
                             !.armres = a.res,
                             !.midok = @ /\ env.ok,
                             !.mid = IF mid = <<>> THEN @ ELSE mid[1].kind],
                  Tail(evts), width, armErr, <<>>)

\* ConfigManager::handle_events, the loop over the batch evts. st carries what
\* the loop reads and writes: os, watch_desc, the caller's cfg and layers, ret,
\* and fatal once an unwrap failed; reloads and arms count the load_config and
\* arm_inotify calls made. mid are the steps other processes take between the
\* load's read of the user file and the re-arm, midok whether they were possible.
RECURSIVE handle_events(_, _, _, _, _)
handle_events(st, evts, width, armErr, mid) ==
    IF evts = <<>> \/ st.fatal # "none" THEN st
    ELSE IF Some(Head(evts).wd) # st.watch_desc
    THEN handle_events(st, Tail(evts), width, armErr, mid)
    ELSE
      LET rd    == ReadUserFile(st.os)
          parts == WatchLoad[width, sys, rd.src]
      IN IF parts = None
         THEN [st EXCEPT !.os = rd.os, !.fatal = "load", !.matched = TRUE,
                         !.reloads = @ + 1]
         ELSE
           LET env == EnvRun(rd.os, mid)
               a   == arm_inotify(env.os, armErr)
           IN handle_events(
                  [st EXCEPT !.os = a.os,
                             !.cfg = Some(parts[1].cfg),
                             !.layers = Some(parts[1].layers),
                             !.ret = TRUE,
                             !.watch_desc = IF a.panic THEN @ ELSE a.watch_desc,
                             !.fatal = IF a.panic THEN "arm" ELSE "none",
                             !.matched = TRUE,
                             !.reloads = @ + 1,
                             !.arms = @ + 1,
                             !.armres = a.res,
                             !.midok = @ /\ env.ok,
                             !.mid = IF mid = <<>> THEN @ ELSE mid[1].kind],
                  Tail(evts), width, armErr, <<>>)

\* the loop state handle_events starts from
LoopStart(o) ==
    [os |-> o, watch_desc |-> watch_desc, cfg |-> cfg, layers |-> layers,
     ret |-> FALSE, fatal |-> "none", matched |-> FALSE, reloads |-> 0, arms |-> 0,
     armres |-> "none", midok |-> TRUE, mid |-> "none"]

\* the masks of a batch of events
MasksOf(evts) == {evts[i].mask : i \in 1..Len(evts)}

\* ConfigManager::new: Inotify::init, then the first arm_inotify
New ==
    /\ phase = "boot"
    /\ \E initErr \in BOOLEAN, armErr \in BOOLEAN :
         /\ initErr => ~armErr
         /\ LET a == arm_inotify(os, armErr) IN
            /\ IF initErr \/ a.panic
               THEN /\ phase' = "aborted"
                    /\ UNCHANGED <<os, watch_desc>>
               ELSE /\ phase' = "constructed"
                    /\ os' = a.os
                    /\ watch_desc' = a.watch_desc
            /\ last' = [LastOf("new") EXCEPT
                          !.arms = IF initErr THEN 0 ELSE 1,
                          !.armres = IF initErr THEN "none" ELSE a.res,
                          !.fatal = IF initErr THEN "init"
                                    ELSE IF a.panic THEN "arm" ELSE "none"]
    /\ UNCHANGED <<sys, cfg, layers, lin, lout>>

\* ConfigManager::load_config, whose result the caller takes as its first
\* Config and layer pair
LoadConfig ==
    /\ phase = "constructed"
    /\ \E width \in Widths :
         LET rd    == ReadUserFile(os)
             parts == WatchLoad[width, sys, rd.src]
         IN /\ os' = rd.os
            /\ IF parts = None
               THEN phase' = "aborted" /\ UNCHANGED <<cfg, layers>>
               ELSE /\ phase' = "running"
                    /\ cfg' = Some(parts[1].cfg)
                    /\ layers' = Some(parts[1].layers)
            /\ last' = [LastOf("load") EXCEPT
                          !.width = width, !.reloads = 1,
                          !.fatal = IF parts = None THEN "load" ELSE "none"]
    /\ UNCHANGED <<sys, watch_desc, lin, lout>>

\* update_config loading the file it has just armed on, and returning true,
\* instead of line 298's return false
UpdateUnarmed_loads ==
    /\ phase = "running"
    /\ watch_desc = None
    /\ \E armErr \in BOOLEAN, width \in Widths :
         LET a     == arm_inotify(os, armErr)
             armed == ~a.panic /\ a.watch_desc # None
             rd    == IF armed THEN ReadUserFile(a.os) ELSE [src |-> "absent", os |-> a.os]
             parts == WatchLoad[width, sys, rd.src]
         IN
         /\ a.os.next_wd <= MaxWd + 1
         /\ IF a.panic \/ (armed /\ parts = None)
            THEN phase' = "aborted" /\ UNCHANGED <<os, watch_desc, cfg, layers>>
            ELSE /\ os' = rd.os
                 /\ watch_desc' = a.watch_desc
                 /\ cfg' = IF armed THEN Some(parts[1].cfg) ELSE cfg
                 /\ layers' = IF armed THEN Some(parts[1].layers) ELSE layers
                 /\ UNCHANGED phase
         /\ last' = [LastOf("update") EXCEPT
                       !.after = IF last.op = "replace" THEN "replace" ELSE "other",
                       !.width = IF armed THEN width ELSE 0,
                       !.ret = armed /\ parts # None,
                       !.read = "unarmed",
                       !.reloads = IF armed THEN 1 ELSE 0,
                       !.arms = 1, !.armres = a.res,
                       !.fatal = IF a.panic THEN "arm"
                                 ELSE IF armed /\ parts = None THEN "load" ELSE "none"]
    /\ UNCHANGED <<sys, lin, lout>>

\* ConfigManager::update_config, lines 296-299: not armed, so one arm attempt
UpdateUnarmed ==
    /\ phase = "running"
    /\ watch_desc = None
    /\ \E armErr \in BOOLEAN :
         LET a == arm_inotify(os, armErr) IN
         /\ a.os.next_wd <= MaxWd + 1
         /\ IF a.panic
            THEN phase' = "aborted" /\ UNCHANGED <<os, watch_desc>>
            ELSE /\ os' = a.os
                 /\ watch_desc' = a.watch_desc
                 /\ UNCHANGED phase
         /\ last' = [LastOf("update") EXCEPT
                       !.after = IF last.op = "replace" THEN "replace" ELSE "other",
                       !.read = "unarmed",
                       !.arms = 1, !.armres = a.res,
                       !.fatal = IF a.panic THEN "arm" ELSE "none"]
    /\ UNCHANGED <<sys, cfg, layers, lin, lout>>

\* ConfigManager::update_config, lines 300-303, with handle_events: armed, so
\* one non-blocking read of the instance; EAGAIN without events, readErr for any
\* other errno (handle_events unwraps it), otherwise every queued event
UpdateArmed ==
    /\ phase = "running"
    /\ watch_desc # None
    /\ \E width \in Widths, readErr \in BOOLEAN, armErr \in BOOLEAN, mid \in MidSeqs :
         LET evts == os.queue
             hit  == /\ ~readErr
                     /\ \E i \in 1..Len(evts) : Some(evts[i].wd) = watch_desc
         IN /\ ~hit => mid = <<>> /\ ~armErr
            /\ \E st \in {IF readErr \/ evts = <<>> THEN LoopStart(os)
                          ELSE handle_events(LoopStart([os EXCEPT !.queue = <<>>]),
                                             evts, width, armErr, mid)} :
                 /\ st.midok
                 /\ st.mid = (IF mid = <<>> THEN "none" ELSE mid[1].kind)
                 /\ st.arms = 0 => ~armErr
                 /\ st.os.next_wd <= MaxWd + 1
                 /\ os' = st.os
                 /\ watch_desc' = st.watch_desc
                 /\ cfg' = st.cfg
                 /\ layers' = st.layers
                 /\ phase' = IF readErr \/ st.fatal # "none" THEN "aborted" ELSE phase
                 /\ last' = [LastOf("update") EXCEPT
                               !.after = IF last.op = "replace" THEN "replace" ELSE "other",
                               !.width = IF st.reloads > 0 THEN width ELSE 0,
                               !.ret = st.ret,
                               !.read = IF readErr THEN "err"
                                        ELSE IF evts = <<>> THEN "eagain" ELSE "batch",
                               !.masks = IF readErr THEN {} ELSE MasksOf(evts),
                               !.matched = st.matched,
                               !.reloads = st.reloads,
                               !.arms = st.arms,
                               !.armres = st.armres,
                               !.fatal = IF readErr THEN "read" ELSE st.fatal,
                               !.mid = st.mid]
    /\ UNCHANGED <<sys, lin, lout>>

\* another process writes the user file and closes it
FileWrite ==
    /\ phase \in {"boot", "constructed", "running"}
    /\ \E op \in EnvOps :
         /\ op.kind = "write" /\ EnvEnabled(os, op)
         /\ os' = EnvApply(os, op)
    /\ last' = LastOf("env")
    /\ UNCHANGED <<sys, watch_desc, cfg, layers, phase, lin, lout>>

\* another process opens the user file read-only and closes it
FileRead ==
    /\ phase \in {"boot", "constructed", "running"}
    /\ \E op \in EnvOps :
         /\ op.kind = "read" /\ EnvEnabled(os, op)
         /\ os' = EnvApply(os, op)
    /\ last' = LastOf("env")
    /\ UNCHANGED <<sys, watch_desc, cfg, layers, phase, lin, lout>>

\* another process renames a finished file onto the path of the user file
FileReplace ==
    /\ phase \in {"boot", "constructed", "running"}
    /\ \E op \in EnvOps :
         /\ op.kind = "replace" /\ EnvEnabled(os, op)
         /\ os' = EnvApply(os, op)
    /\ last' = LastOf("replace")
    /\ UNCHANGED <<sys, watch_desc, cfg, layers, phase, lin, lout>>

\* another process unlinks the user file
FileDelete ==
    /\ phase \in {"boot", "constructed", "running"}
    /\ \E op \in EnvOps :
         /\ op.kind = "delete" /\ EnvEnabled(os, op)
         /\ os' = EnvApply(os, op)
    /\ last' = LastOf("env")
    /\ UNCHANGED <<sys, watch_desc, cfg, layers, phase, lin, lout>>

\* another process puts a user file where there was none
FileCreate ==
    /\ phase \in {"boot", "constructed", "running"}
    /\ \E op \in EnvOps :
         /\ op.kind = "create" /\ EnvEnabled(os, op)
         /\ os' = EnvApply(os, op)
    /\ last' = LastOf("env")
    /\ UNCHANGED <<sys, watch_desc, cfg, layers, phase, lin, lout>>

\* the kernel queues the IN_IGNORED of a one-shot watch that has fired
KernelIgnored ==
    /\ phase \in {"boot", "constructed", "running"}
    /\ os.ignored # None
    /\ os' = [os EXCEPT !.queue = @ \o PendingIgnored(os), !.ignored = None]
    /\ last' = LastOf("env")
    /\ UNCHANGED <<sys, watch_desc, cfg, layers, phase, lin, lout>>

\* before ConfigManager::new: the user file is there or not, nothing is watched
Init ==
    /\ os \in [file : {None} \cup {Some([ino |-> 1, content |-> c]) : c \in FileContents},
               watches : {{}}, queue : {<<>>}, ignored : {None},
               next_wd : {1}, next_ino : {2}]
    /\ sys \in WatchSysNames
    /\ watch_desc = None
    /\ cfg = None
    /\ layers = None
    /\ phase = "boot"
    /\ last = Idle
    /\ lin = None
    /\ lout = None

Next ==
    \/ New
    \/ LoadConfig
    \/ UpdateUnarmed
    \/ UpdateArmed
    \/ FileWrite
    \/ FileRead
    \/ FileReplace
    \/ FileDelete
    \/ FileCreate
    \/ KernelIgnored

Spec == Init /\ [][Next]_vars

----------------------------------------------------------------------------
(* Properties of load_config, under SpecLoad                               *)

\* C6: field-granular merge. When both sources parse, every field of the merged
\* record is the user's value if the user record has the field and the system
\* default's value otherwise; and giving one field of the user record any other
\* value, or none, leaves every other field of the merged record as it is.
C6_FieldGranularMerge ==
    (lout # None /\ lin.sys.kind = "ok" /\ lin.user.kind = "ok") =>
        LET m == lout[1].merged[1]
            u == lin.user.rec
            b == lin.sys.rec
        IN /\ \A f \in ProxyFields : m[f] = IF u[f] # None THEN u[f] ELSE b[f]
           /\ \A g \in ProxyFields, v \in 0..NumVariants :
                 LET u2 == [u EXCEPT ![g] = IF v = 0 THEN None
                                            ELSE Some(FieldValue(g, v))]
                 IN \A f \in ProxyFields \ {g} : merge(b, u2)[f] = m[f]

\* C6 happens: the user gives a brightness that differs from the default's and
\* gives no font, and the merged record has the user's brightness.
C6_Witness ==
    /\ lout # None /\ lin.sys.kind = "ok" /\ lin.user.kind = "ok"
    /\ lin.user.rec.active_brightness = Some(80)
    /\ lin.sys.rec.active_brightness = Some(50)
    /\ lin.user.rec.font_template = None
    /\ lin.sys.rec.font_template = Some("sans")
    /\ lout[1].merged[1].active_brightness = Some(80)
    /\ lout[1].merged[1].font_template = Some("sans")

\* C7: a user source that is missing, unreadable or malformed is absorbed.
\* load_config then gives what it gives without a user file, which is what the
\* system default alone resolves to, and it panics only where the system
\* default alone makes it panic.
C7_BadUserSourceAbsorbed ==
    (lout # None /\ lin.user.kind \in {"missing", "unreadable", "malformed"}) =>
        /\ lout[1].result = load_config(lin.width, lin.sys, NoUserFile)
        /\ lout[1].result = IF lin.sys.kind = "ok"
                            THEN build_config(lin.width, lin.sys.rec) ELSE None
        /\ ( /\ lin.sys.kind = "ok"
             /\ \A f \in RequiredFields : lin.sys.rec[f] # None
             /\ lin.sys.rec.font_template[1] \in InstalledFonts )
           => lout[1].result # None

\* C7 happens: a malformed user file, and load_config returned a snapshot.
C7_Witness ==
    /\ lout # None
    /\ lin.user.kind = "malformed"
    /\ lout[1].result # None

\* C8: load_config returns no snapshot with a required field unset. If the
\* system default is missing or unparsable, or a required field is absent after
\* the merge, it panics; and where it returns, every field of the Config holds
\* the merged value.
C8_NoUnsetRequiredField ==
    lout # None =>
        LET r == lout[1].result
            m == lout[1].merged
        IN /\ (lin.sys.kind # "ok" \/ \E f \in RequiredFields : m[1][f] = None)
                 => r = None
           /\ r # None =>
                 /\ r[1].cfg.show_button_outlines = m[1].show_button_outlines[1]
                 /\ r[1].cfg.enable_pixel_shift = m[1].enable_pixel_shift[1]
                 /\ r[1].cfg.adaptive_brightness = m[1].adaptive_brightness[1]
                 /\ r[1].cfg.active_brightness = m[1].active_brightness[1]
                 /\ Some(r[1].cfg.font_face) = load_font(m[1].font_template[1])
                 /\ r[1].cfg.colors =
                       to_color_config(IF m[1].colors # None THEN m[1].colors[1]
                                       ELSE DefaultColorConfigProxy)

\* C8 happens: both sources parse, neither gives a brightness, and load_config
\* panicked.
C8_Witness ==
    /\ lout # None
    /\ lin.sys.kind = "ok" /\ lin.user.kind = "ok"
    /\ lin.user.rec.font_template = Some("sans")
    /\ lout[1].merged[1].active_brightness = None
    /\ lout[1].result = None

----------------------------------------------------------------------------
(* Properties of the layer pair and the colors, under SpecLayers           *)

\* load_config returned a snapshot
Returned == lout # None /\ lout[1].result # None

\* the key lists load_config unwrapped at lines 227-228
MediaKeys == lout[1].merged[1].media_layer_keys[1]
PrimaryKeys == lout[1].merged[1].primary_layer_keys[1]

\* the button sequences of the two layers returned, in the order returned
ButtonsOf(i) == lout[1].result[1].layers[i].buttons

\* a descriptor is the synthetic escape key: no icon, text "esc", the escape
\* action, no stretch
IsEsc(b) ==
    /\ b.icon = None /\ b.text = Some("esc") /\ b.action = "Esc" /\ b.stretch = None

\* C11: the escape-key threshold. From width 2170 on (2170 included) the media
\* and the primary layer both begin with the synthetic escape descriptor,
\* followed by the configured descriptors in their order; up to width 2169
\* neither layer holds it and both sequences are the configured ones.
C11_EscapeThreshold ==
    Returned =>
        /\ lin.width >= 2170 =>
              /\ \A i \in 1..2 : Len(ButtonsOf(i)) >= 1 /\ IsEsc(Head(ButtonsOf(i)))
              /\ {Tail(ButtonsOf(1)), Tail(ButtonsOf(2))} = {MediaKeys, PrimaryKeys}
        /\ lin.width <= 2169 =>
              /\ \A i \in 1..2 : \A k \in 1..Len(ButtonsOf(i)) : ~IsEsc(ButtonsOf(i)[k])
              /\ {ButtonsOf(1), ButtonsOf(2)} = {MediaKeys, PrimaryKeys}

\* C11 happens: width 2170 exactly, two primary keys configured, and a layer
\* returned holds the escape key and then the two.
C11_Witness ==
    /\ Returned
    /\ lin.width = 2170
    /\ Len(PrimaryKeys) = 2
    /\ \E i \in 1..2 : ButtonsOf(i) = <<EscButton>> \o PrimaryKeys

\* the configured sequence a returned layer was built from: without the escape
\* key load_config put first
ConfiguredOf(i) == IF lin.width >= 2170 THEN Tail(ButtonsOf(i)) ELSE ButtonsOf(i)

\* the media-layer-default flag in force: the user's if the user source parsed
\* and gives one, otherwise the system default's
FlagInForce ==
    IF lin.user.kind = "ok" /\ lin.user.rec.media_layer_default # None
    THEN lin.user.rec.media_layer_default[1]
    ELSE lin.sys.rec.media_layer_default[1]

\* C12: layer order. The pair returned is [media, primary] when the flag in
\* force is true and [primary, media] when it is false; either way one layer is
\* built from the media key list and the other from the primary key list.
C12_LayerOrder ==
    Returned =>
        /\ FlagInForce =>
              ConfiguredOf(1) = MediaKeys /\ ConfiguredOf(2) = PrimaryKeys
        /\ ~FlagInForce =>
              ConfiguredOf(1) = PrimaryKeys /\ ConfiguredOf(2) = MediaKeys

\* C12 happens: the system default puts the media layer first, the user turns
\* the flag off, the key lists differ, and the primary layer comes first.
C12_Witness ==
    /\ Returned
    /\ lin.sys.rec.media_layer_default = Some(TRUE)
    /\ lin.user.kind = "ok" /\ lin.user.rec.media_layer_default = Some(FALSE)
    /\ MediaKeys # PrimaryKeys
    /\ ConfiguredOf(1) = PrimaryKeys

\* the user source parsed and holds a colors section
UserGivesColors == lin.user.kind = "ok" /\ lin.user.rec.colors # None

\* C15: the colors section is replaced wholesale. If the user gives a colors
\* section, the colors returned are resolved from that section alone, whatever
\* the system default's section holds; if the user gives none, they are
\* resolved from the system default's section, or from the built-in palette
\* when that has none either.
C15_ColorsWholesale ==
    Returned =>
        LET colors == lout[1].result[1].cfg.colors IN
        /\ UserGivesColors => colors = to_color_config(lin.user.rec.colors[1])
        /\ (~UserGivesColors /\ lin.sys.rec.colors # None) =>
              colors = to_color_config(lin.sys.rec.colors[1])
        /\ (~UserGivesColors /\ lin.sys.rec.colors = None) =>
              colors = DefaultColorConfig

\* C15 happens: the system default's section sets a text color and a button
\* override, the user's names the light theme only, and the colors returned
\* are the light palette's, without the override.
C15_Witness ==
    /\ Returned
    /\ UserGivesColors
    /\ lin.user.rec.colors[1].theme # None /\ lin.user.rec.colors[1].text_color = None
    /\ lin.sys.rec.colors # None
    /\ lin.sys.rec.colors[1].text_color = Some(<<50, 50, 50>>)
    /\ lin.sys.rec.colors[1].button_overrides # None
    /\ lout[1].result[1].cfg.colors.text_color = <<10, 10, 10>>
    /\ lout[1].result[1].cfg.colors.button_overrides = None

----------------------------------------------------------------------------
(* Properties of from_theme and get_button_colors, under SpecColors        *)

\* C13: theme lookup is total and blind to case. Whatever the string,
\* from_theme gives one of the four palettes: the light, the colorful or the
\* minimal one exactly when the string in lower case is that name, the default
\* one for every other string ("dark" too); and the palette carries no button
\* overrides.
C13_ThemeLookup ==
    (lin.kind = "theme" /\ lout # <<>>) =>
        LET t == to_lowercase(lin.theme)
            r == lout[1]
        IN /\ r \in {LightPalette, ColorfulPalette, MinimalPalette, DefaultColorConfig}
           /\ (t = <<"l", "i", "g", "h", "t">>) <=> (r = LightPalette)
           /\ (t = <<"c", "o", "l", "o", "r", "f", "u", "l">>) <=> (r = ColorfulPalette)
           /\ (t = <<"m", "i", "n", "i", "m", "a", "l">>) <=> (r = MinimalPalette)
           /\ (t = <<"d", "a", "r", "k">>) => (r = DefaultColorConfig)
           /\ r.button_overrides = None

\* C13 happens: "LIGHT" resolved to the light palette.
C13_Witness ==
    /\ lin.kind = "theme"
    /\ lin.theme = <<"L", "I", "G", "H", "T">>
    /\ lout = <<LightPalette>>

\* the override entry get_button_colors finds for the button text, if any
EntryFor(self, button_text) ==
    IF self.button_overrides # None /\ button_text \in DOMAIN self.button_overrides[1]
    THEN Some(self.button_overrides[1][button_text]) ELSE None

\* C14: get_button_colors merges field by field. Each of the five colors
\* returned is the override's when the map has an entry for the button text and
\* the entry gives that field, and the palette's otherwise; and a second call
\* with the same text returns the same tuple.
C14_ButtonColors ==
    (lin.kind = "colors" /\ lout # <<>>) =>
        LET e == EntryFor(lin.self, lin.button_text) IN
        /\ \A i \in 1..5 :
              lout[1][i] = IF e # None /\ e[1][ColorFields[i]] # None
                           THEN e[1][ColorFields[i]][1]
                           ELSE lin.self[ColorFields[i]]
        /\ Len(lout) = 2 => lout[2] = lout[1]

\* C14 happens: the entry for "esc" gives icon_color alone, and the second call
\* returned the override's icon_color among the palette's other four colors.
C14_Witness ==
    /\ lin.kind = "colors" /\ Len(lout) = 2
    /\ lin.button_text = "esc"
    /\ EntryFor(lin.self, "esc") # None
    /\ EntryFor(lin.self, "esc")[1].icon_color # None
    /\ EntryFor(lin.self, "esc")[1].icon_color_active = None
    /\ lout[2][3] = <<0, 0, 55>>
    /\ lout[2][4] = lin.self.icon_color_active

----------------------------------------------------------------------------
(* Properties of ConfigManager, under Spec                                 *)

\* the content read_to_string would yield now
CurrentContent == IF os.file = None THEN "absent" ELSE os.file[1].content

\* the manager is armed with a descriptor the kernel has registered on the
\* inode USER_CFG_PATH names
Registered ==
    /\ watch_desc # None
    /\ os.file # None
    /\ [wd |-> watch_desc[1], ino |-> os.file[1].ino] \in os.watches

\* no update_config call reloads until the file is touched again: the manager
\* is unarmed without a file to arm on, or armed with no event of its
\* descriptor queued or due
Settled ==
    /\ phase = "running"
    /\ \/ watch_desc = None /\ os.file = None
       \/ /\ watch_desc # None
          /\ \A i \in 1..Len(os.queue) : os.queue[i].wd # watch_desc[1]
          /\ os.ignored # watch_desc

\* the caller holds what load_config resolves from the file as it is
Synced ==
    \E w \in Widths :
        /\ WatchLoad[w, sys, CurrentContent] # None
        /\ cfg = Some(WatchLoad[w, sys, CurrentContent][1].cfg)
        /\ layers = Some(WatchLoad[w, sys, CurrentContent][1].layers)

\* C1: no change of the user file is missed. Once update_config calls can
\* reload nothing more, and the file as it is resolves to a snapshot, the
\* caller holds that snapshot.
C1_NoChangeMissed ==
    (Settled /\ \E w \in Widths : WatchLoad[w, sys, CurrentContent] # None) => Synced

\* C2: starting armed, a replace of the user file by a move followed at once by
\* an update_config call that returns, with no other process acting during the
\* call: the call returns true after exactly one reload, of the new file, and
\* the manager is armed with a descriptor registered on the new file.
C2_ReplaceThenUpdate ==
    ( /\ last.op = "update" /\ last.after = "replace"
      /\ last.read # "unarmed" /\ last.mid = "none" /\ last.fatal = "none" ) =>
        /\ last.ret
        /\ last.reloads = 1
        /\ Registered
        /\ cfg = Some(WatchLoad[last.width, sys, CurrentContent][1].cfg)
        /\ layers = Some(WatchLoad[last.width, sys, CurrentContent][1].layers)

\* C2 happens: the batch read after the replace held the IN_IGNORED of the
\* replaced inode alone.
C2_Witness ==
    /\ last.op = "update" /\ last.after = "replace"
    /\ last.read = "batch" /\ last.masks = {"IN_IGNORED"}
    /\ last.mid = "none" /\ last.fatal = "none"
    /\ last.ret
    /\ Registered

\* C3: the watch lifecycle for an absent file. new without a user file gives
\* Unarmed without a panic; an update_config call made unarmed while the file
\* is absent stays unarmed, returns false and does not panic; one made unarmed
\* with the file there leaves the manager armed on it, unless the registration
\* fails for another reason.
C3_AbsentFileLifecycle ==
    /\ (last.op = "new" /\ last.fatal # "init" /\ os.file = None) =>
          (phase = "constructed" /\ watch_desc = None)
    /\ (last.op = "update" /\ last.read = "unarmed" /\ os.file = None) =>
          (phase = "running" /\ watch_desc = None /\ ~last.ret /\ last.fatal = "none")
    /\ (last.op = "update" /\ last.read = "unarmed" /\ os.file # None
           /\ last.fatal = "none") =>
          (phase = "running" /\ Registered /\ ~last.ret)

\* C3 happens: an update_config call started unarmed after the file appeared.
C3_Witness ==
    /\ last.op = "update" /\ last.read = "unarmed"
    /\ os.next_ino > 2
    /\ Registered

\* C4: an update_config call that consumes an event of the armed descriptor
\* and returns has made a re-arm attempt, and the watch state is its result:
\* armed with a registered descriptor other than the fired one, or unarmed
\* because the file was gone.
C4_RearmInSameCall ==
    [][ (last'.op = "update" /\ last'.matched /\ phase' = "running") =>
           /\ last'.arms >= 1
           /\ watch_desc' # watch_desc
           /\ \/ os'.file = None /\ watch_desc' = None /\ last'.armres = "ENOENT"
              \/ os'.file # None /\ Registered' /\ last'.armres = "ok" ]_vars

\* C4 happens: the file was deleted between the reload's read and the re-arm,
\* and the call left the manager unarmed.
C4_Witness ==
    /\ last.op = "update" /\ last.matched /\ phase = "running"
    /\ last.mid = "delete"
    /\ last.arms = 1
    /\ watch_desc = None

\* C5: the swap is all or nothing. Every step leaves the caller's Config and
\* layer pair both as they were or replaces both by the result of one
\* load_config pass on the file as the step found it, and a step whose load
\* pass panics leaves both as they were.
C5_SwapAllOrNothing ==
    [][ /\ \/ UNCHANGED <<cfg, layers>>
           \/ \E w \in Widths :
                 /\ WatchLoad[w, sys, CurrentContent] # None
                 /\ cfg' = Some(WatchLoad[w, sys, CurrentContent][1].cfg)
                 /\ layers' = Some(WatchLoad[w, sys, CurrentContent][1].layers)
        /\ last'.fatal = "load" => UNCHANGED <<cfg, layers>> ]_vars

\* C5 happens: a reload inside update_config panicked while the caller held a
\* snapshot.
C5_Witness ==
    /\ last.op = "update" /\ last.fatal = "load"
    /\ phase = "aborted"
    /\ cfg # None /\ layers # None

\* C9: an update_config call that finds no event of the armed descriptor (the
\* read would block, or every event read is of another descriptor) returns
\* false, reloads nothing, and leaves Config, layer pair and watch state alone.
C9_NoMatchNoChange ==
    [][ (last'.op = "update" /\ last'.read \in {"eagain", "batch"} /\ ~last'.matched) =>
           /\ UNCHANGED <<cfg, layers, watch_desc, phase>>
           /\ ~last'.ret
           /\ last'.reloads = 0
           /\ last'.arms = 0 ]_vars

\* C9 happens: the batch held only the IN_IGNORED of a descriptor that is no
\* longer the armed one.
C9_Witness ==
    /\ last.op = "update" /\ last.read = "batch" /\ ~last.matched
    /\ last.masks = {"IN_IGNORED"}
    /\ phase = "running"

\* C10: a registration attempt has three outcomes. Success leaves the manager
\* armed with the descriptor registered on the file; ENOENT leaves it unarmed
\* without a panic; any other error panics.
C10_ArmOutcomes ==
    last.arms >= 1 =>
        \/ /\ last.armres = "ok"
           /\ phase \in {"constructed", "running"} /\ last.fatal = "none"
           /\ Registered
        \/ /\ last.armres = "ENOENT"
           /\ phase \in {"constructed", "running"} /\ last.fatal = "none"
           /\ watch_desc = None /\ os.file = None
        \/ /\ last.armres = "EOTHER"
           /\ phase = "aborted" /\ last.fatal = "arm"

\* C10 happens: a re-arm inside update_config failed with an error other than
\* ENOENT.
C10_Witness ==
    /\ last.op = "update" /\ last.matched
    /\ last.armres = "EOTHER"
    /\ phase = "aborted"

\* C16 as stated: after any update_config call that read an event batch and
\* returned, the call has re-armed the watch, whatever the events of the batch.
C16_RearmAfterAnyBatch ==
    (last.op = "update" /\ last.read = "batch" /\ last.fatal = "none") =>
        last.arms >= 1

\* C16 as amended: after any update_config call that read a batch holding an
\* event of the armed descriptor and returned, the call has reloaded and made
\* a re-arm attempt, whatever the kinds of the events (a close without a write
\* too), and the watch state is that attempt's result; a call whose batch holds
\* no event of the armed descriptor makes no re-arm attempt.
C16_RearmAfterMatchingBatch ==
    (last.op = "update" /\ last.read = "batch" /\ last.fatal = "none") =>
        /\ last.matched =>
              /\ last.arms >= 1 /\ last.reloads >= 1 /\ last.ret
              /\ \/ last.armres = "ok" /\ Registered
                 \/ last.armres = "ENOENT" /\ watch_desc = None
        /\ ~last.matched => last.arms = 0

\* C16 happens: the batch held one event, a close without a write, and the
\* call re-armed on the file.
C16_Witness ==
    /\ last.op = "update" /\ last.read = "batch" /\ last.fatal = "none"
    /\ last.masks = {"IN_CLOSE_NOWRITE"}
    /\ last.matched /\ last.arms = 1
    /\ Registered

\* the kernel holds the one-shot watch of descriptor d
WatchLive(d) == \E w \in os.watches : w.wd = d

\* an event of descriptor d is queued unread
EventQueued(d) == \E i \in 1..Len(os.queue) : os.queue[i].wd = d

\* C17: between the calls of the manager, whenever it is armed with a
\* descriptor, the kernel still holds that one-shot watch or an event of the
\* descriptor is queued unread: it is never armed with a descriptor that has
\* fired and has no event left to read.
C17_ArmedIsLive ==
    (phase \in {"constructed", "running"} /\ watch_desc # None) =>
        WatchLive(watch_desc[1]) \/ EventQueued(watch_desc[1])

\* C17 happens: the armed watch has fired and the kernel holds it no longer,
\* and its event waits in the queue.
C17_Witness ==
    /\ phase = "running" /\ watch_desc # None
    /\ ~WatchLive(watch_desc[1])
    /\ EventQueued(watch_desc[1])

\* C18: an update_config call that starts unarmed reads no event and reloads
\* nothing: it makes one arm attempt, leaves the Config, the layer pair and
\* the event queue as they are and returns false, also when the file is there
\* and the attempt succeeds.
C18_UnarmedOnlyArms ==
    [][ (last'.op = "update" /\ watch_desc = None) =>
           /\ last'.read = "unarmed"
           /\ last'.arms = 1
           /\ last'.reloads = 0
           /\ ~last'.ret
           /\ UNCHANGED <<cfg, layers>>
           /\ os'.queue = os.queue ]_vars

\* C18 happens: the call started unarmed with an event left in the queue and a
\* file that the caller's snapshot is not resolved from; it armed on the file
\* and left queue and snapshot alone.
C18_Witness ==
    /\ last.op = "update" /\ last.read = "unarmed"
    /\ last.armres = "ok" /\ Registered
    /\ os.queue # <<>>
    /\ ~last.ret
    /\ ~Synced

\* C19: the value returned tracks the swap. An update_config call that returns
\* gives true exactly when it replaced the caller's Config and layer pair, and
\* then by what load_config resolves, for the width passed to the call, from
\* the file as the call found it; a call that gives false leaves both as they
\* were.
C19_RetTracksSwap ==
    [][ (last'.op = "update" /\ last'.fatal = "none") =>
           /\ last'.ret <=> last'.reloads >= 1
           /\ last'.ret =>
                 /\ last'.width \in Widths
                 /\ WatchLoad[last'.width, sys, CurrentContent] # None
                 /\ cfg' = Some(WatchLoad[last'.width, sys, CurrentContent][1].cfg)
                 /\ layers' = Some(WatchLoad[last'.width, sys, CurrentContent][1].layers)
           /\ ~last'.ret => UNCHANGED <<cfg, layers>> ]_vars

\* C19 happens: a call returned true and the caller holds another Config than
\* the file resolves to at the other width or held before: the one of the
\* width passed, with brightness 80 from the user file.
C19_Witness ==
    /\ last.op = "update" /\ last.fatal = "none"
    /\ last.ret /\ last.width = EscWidth
    /\ cfg # None /\ cfg[1].active_brightness = 80
    /\ layers # None /\ Head(layers[1][1].buttons) = EscButton

\* C20: at most one reload in an update_config call. Whatever the batch holds,
\* the call makes at most one load_config pass and at most one re-arm attempt:
\* once the first event of the armed descriptor is handled, the other events
\* of the fired descriptor match no more.
C20_OneReloadPerCall ==
    last.op = "update" => (last.reloads <= 1 /\ last.arms <= 1)

\* C20 happens: only descriptors 1 and 2 were ever given out and 2 is still
\* registered, so the two events of the batch, of different kinds, both
\* carried descriptor 1; the call reloaded once.
C20_Witness ==
    /\ last.op = "update" /\ last.read = "batch" /\ last.fatal = "none"
    /\ Cardinality(last.masks) = 2
    /\ os.next_wd = 3 /\ watch_desc = Some(2) /\ Registered
    /\ last.reloads = 1 /\ last.arms = 1

====
